---- MODULE Spec2Model ----
(***************************************************************************)
(* Model of atomicval.Value[T] (src/value.go): a generic atomic box whose  *)
(* only field is one pointer-sized slot v naming an immutable [1]T         *)
(* snapshot on the heap, or nil.                                           *)
(*                                                                         *)
(* A value of T is a tuple of machine words: an int is one word, a [2]int  *)
(* two words, an interface value the two words <<dynamic type, data>>.     *)
(* Every step of an operation that touches shared memory is one action:    *)
(* the atomic operation on the slot, and each word read from a snapshot.   *)
(* Steps local to a goroutine (allocating the snapshot that is about to be *)
(* published, testing dp == nil, returning) are part of the action of the  *)
(* shared access they precede or follow.                                   *)
(***************************************************************************)
EXTENDS Naturals, Integers, Sequences, FiniteSets, Bags, TLC

VARIABLES
    T,      \* the type argument of the Value(s): "int", "arr" or "iface"
    v,      \* v[b]: the slot Value.v of box b; 0 is nil, else a heap address
    mem,    \* the heap: mem[p] is the contents of the [1]T snapshot at address p
    pc,     \* pc[t]: where goroutine t stands inside its current call
    loc,    \* loc[t]: the arguments and locals of goroutine t's current call
    last,   \* last[t]: the call goroutine t completed last, with its result
    hist,   \* hist[t]: the completed calls of goroutine t the test has recorded
    log,    \* log[b]: the addresses installed into box b's slot, in order
    todo    \* todo[t]: what the driving test still has goroutine t do

vars == <<T, v, mem, pc, loc, last, hist, log, todo>>

(***************************************************************************)
(* Bounds of the model.                                                    *)
(***************************************************************************)
NProcs == 2        \* goroutines of the free-running specification
MaxCalls == 2      \* calls each of them makes
MaxInt == 1        \* integers range over 0..MaxInt

Procs == DOMAIN pc
Boxes == DOMAIN v

(***************************************************************************)
(* The types T and their values.                                           *)
(***************************************************************************)
Types == {"int", "arr", "iface"}

\* Dynamic types an interface value can carry.  fakeWriter and fakeWriter2
\* are comparable struct types; a slice type is accepted by the constraint
\* behind an interface but has no equality.
DynTypes == {"fakeWriter", "fakeWriter2", "slice"}

Comparable(typ) == typ # "slice"

\* var zeroVal T
ZeroOf(ty) ==
    CASE ty = "int"   -> <<0>>
      [] ty = "arr"   -> <<0, 0>>
      [] ty = "iface" -> <<"nil", 0>>

Zero == ZeroOf(T)

Width == Len(Zero)

ValuesOf(ty) ==
    CASE ty = "int"   -> {<<i>> : i \in 0..MaxInt}
      [] ty = "arr"   -> {<<i, i>> : i \in 0..MaxInt}
      [] ty = "iface" -> {<<"nil", 0>>} \cup {<<d, 0>> : d \in DynTypes}

Vals == ValuesOf(T)

\* the comparison with its sense inverted (== written for !=)
GoEqualInverted(a, b) == IF a = b THEN "ne" ELSE "eq"

\* Go's == on two values of T.  On interface values it compares the
\* dynamic types first and the data only when the types are identical, and
\* panics when that identical type is not comparable.
GoEqual(a, b) ==
    IF T = "iface"
    THEN IF a[1] # b[1] THEN "ne"
         ELSE IF a[1] = "nil" THEN "eq"
         ELSE IF ~Comparable(a[1]) THEN "panic"
         ELSE IF a[2] = b[2] THEN "eq" ELSE "ne"
    ELSE IF a = b THEN "eq" ELSE "ne"

(***************************************************************************)
(* The heap and the atomic operations on the slot.                         *)
(***************************************************************************)
\* a store that edits the newest snapshot in place instead of allocating
NewSnapshotInPlace(m, val) ==
    IF Len(m) = 0 THEN [mem |-> Append(m, val), p |-> Len(m) + 1]
    ELSE [mem |-> [m EXCEPT ![Len(m)] = val], p |-> Len(m)]

\* unsafe.Pointer(&[1]T{val}): a new snapshot at an address never used before
NewSnapshot(m, val) == [mem |-> Append(m, val), p |-> Len(m) + 1]

\* a plain read of the slot that may still see the pointer held before the
\* latest replacement
LoadPointerStale(b) ==
    IF Len(log[b]) >= 2 THEN log[b][Len(log[b]) - 1] ELSE v[b]

\* atomic.LoadPointer(&v.v)
LoadPointer(b) == v[b]

\* a swap made of a load and a later store: the pointer it returns may be
\* the one held before the latest replacement
SwapPointerTwoSteps(b, new) ==
    [old |-> IF Len(log[b]) >= 2 THEN log[b][Len(log[b]) - 1] ELSE v[b],
     v |-> new]

\* atomic.SwapPointer(&v.v, new): the pointer held before, and the new slot
SwapPointer(b, new) == [old |-> v[b], v |-> new]

\* a conditional replacement that writes the slot also when it fails
CompareAndSwapPointerAlwaysWrites(cur, old, new) ==
    [ok |-> cur = old, v |-> new]

\* a conditional replacement that compares the contents of the snapshots
\* instead of their addresses
CompareAndSwapPointerByValue(cur, old, new) ==
    IF (IF cur = 0 THEN Zero ELSE mem[cur]) = (IF old = 0 THEN Zero ELSE mem[old])
    THEN [ok |-> TRUE, v |-> new]
    ELSE [ok |-> FALSE, v |-> cur]

\* atomic.CompareAndSwapPointer(&v.v, old, new) on a slot holding cur
CompareAndSwapPointer(cur, old, new) ==
    IF cur = old THEN [ok |-> TRUE, v |-> new] ELSE [ok |-> FALSE, v |-> cur]

\* the value the box holds: nil counts as the zero value
Held(b) == IF v[b] = 0 THEN Zero ELSE mem[v[b]]

\* the value box b held after its k-th slot replacement (k = 0: never stored)
ValueAt(b, k) == IF k = 0 THEN Zero ELSE mem[log[b][k]]

\* an uninitialised box that matches every old value
NilMatchesAnything(old) == TRUE

\* an uninitialised box that matches no old value at all
NilNeverMatches(old) == FALSE

\* var zeroVal T; if old != zeroVal { return false }
NilMatches(old) == GoEqual(old, Zero) = "eq"

(***************************************************************************)
(* Calls.                                                                  *)
(***************************************************************************)
\* ops counts the atomic operations the call has made on the slot
NoCall == [b |-> 0, op |-> "none", old |-> <<>>, new |-> <<>>, dp |-> 0,
           buf |-> <<>>, from |-> 0, at |-> 0, ops |-> 0]

Crashed == \E t \in Procs : pc[t] = "panic"

\* goroutine t's call returns ret (Load, Swap) or ok (CompareAndSwap)
Return(t, c, ret, ok) ==
    /\ pc' = [pc EXCEPT ![t] = "idle"]
    /\ loc' = [loc EXCEPT ![t] = NoCall]
    /\ last' = [last EXCEPT ![t] =
                  [b |-> c.b, op |-> c.op, old |-> c.old, new |-> c.new,
                   dp |-> c.dp, ret |-> ret, ok |-> ok, from |-> c.from,
                   at |-> c.at, to |-> Len(log'[c.b]), ops |-> c.ops]]

\* one more word of the snapshot at c.dp is read into the local copy
ReadWord(c) == Append(c.buf, mem[c.dp][Len(c.buf) + 1])

\* func (v *Value[T]) Load() (val T)
Load(t, b) ==
    /\ ~Crashed /\ pc[t] = "idle"
    /\ LET dp == LoadPointer(b)
           c == [NoCall EXCEPT !.b = b, !.op = "Load", !.dp = dp,
                               !.from = Len(log[b]), !.ops = 1]
       IN  /\ UNCHANGED <<T, v, mem, log>>
           /\ IF dp = 0
              THEN Return(t, c, Zero, TRUE)
              ELSE /\ pc' = [pc EXCEPT ![t] = "load_copy"]
                   /\ loc' = [loc EXCEPT ![t] = c]
                   /\ UNCHANGED last

\* return (*[1]T)(dp)[0]
LoadCopy(t) ==
    /\ ~Crashed /\ pc[t] = "load_copy"
    /\ LET buf == ReadWord(loc[t])
       IN  /\ UNCHANGED <<T, v, mem, log>>
           /\ IF Len(buf) = Width
              THEN Return(t, loc[t], buf, TRUE)
              ELSE /\ loc' = [loc EXCEPT ![t].buf = buf]
                   /\ UNCHANGED <<pc, last>>

\* a Store that leaves the slot alone when val is the zero value (nil)
StoreSkipsZero(t, b, val) ==
    /\ ~Crashed /\ pc[t] = "idle"
    /\ LET s == IF val = Zero THEN [mem |-> mem, p |-> v[b]]
                ELSE [mem |-> Append(mem, val), p |-> Len(mem) + 1]
           c == [NoCall EXCEPT !.b = b, !.op = "Store", !.new = val,
                               !.from = Len(log[b]), !.at = Len(log[b]) + 1,
                               !.ops = 1]
       IN  /\ mem' = s.mem
           /\ v' = [v EXCEPT ![b] = s.p]
           /\ log' = [log EXCEPT ![b] = Append(@, s.p)]
           /\ UNCHANGED T
           /\ Return(t, c, <<>>, TRUE)

\* a Store that reads the slot with LoadPointer before StorePointer
StoreLoadsFirst(t, b, val) ==
    /\ ~Crashed /\ pc[t] = "idle"
    /\ LET s == NewSnapshot(mem, val)
           c == [NoCall EXCEPT !.b = b, !.op = "Store", !.new = val,
                               !.dp = LoadPointer(b),
                               !.from = Len(log[b]), !.at = Len(log[b]) + 1,
                               !.ops = 2]
       IN  /\ mem' = s.mem
           /\ v' = [v EXCEPT ![b] = s.p]
           /\ log' = [log EXCEPT ![b] = Append(@, s.p)]
           /\ UNCHANGED T
           /\ Return(t, c, <<>>, TRUE)

\* func (v *Value[T]) Store(val T)
Store(t, b, val) ==
    /\ ~Crashed /\ pc[t] = "idle"
    /\ LET s == NewSnapshot(mem, val)
           c == [NoCall EXCEPT !.b = b, !.op = "Store", !.new = val,
                               !.from = Len(log[b]), !.at = Len(log[b]) + 1,
                               !.ops = 1]
       IN  /\ mem' = s.mem
           /\ v' = [v EXCEPT ![b] = s.p]
           /\ log' = [log EXCEPT ![b] = Append(@, s.p)]
           /\ UNCHANGED T
           /\ Return(t, c, <<>>, TRUE)

\* func (v *Value[T]) Swap(new T) (old T)
Swap(t, b, new) ==
    /\ ~Crashed /\ pc[t] = "idle"
    /\ LET s == NewSnapshot(mem, new)
           r == SwapPointer(b, s.p)
           dp == r.old
           c == [NoCall EXCEPT !.b = b, !.op = "Swap", !.new = new, !.dp = dp,
                               !.from = Len(log[b]), !.at = Len(log[b]) + 1,
                               !.ops = 1]
       IN  /\ mem' = s.mem
           /\ v' = [v EXCEPT ![b] = r.v]
           /\ log' = [log EXCEPT ![b] = Append(@, s.p)]
           /\ UNCHANGED T
           /\ IF dp = 0
              THEN Return(t, c, Zero, TRUE)
              ELSE /\ pc' = [pc EXCEPT ![t] = "swap_copy"]
                   /\ loc' = [loc EXCEPT ![t] = c]
                   /\ UNCHANGED last

\* return (*[1]T)(dp)[0]
SwapCopy(t) ==
    /\ ~Crashed /\ pc[t] = "swap_copy"
    /\ LET buf == ReadWord(loc[t])
       IN  /\ UNCHANGED <<T, v, mem, log>>
           /\ IF Len(buf) = Width
              THEN Return(t, loc[t], buf, TRUE)
              ELSE /\ loc' = [loc EXCEPT ![t].buf = buf]
                   /\ UNCHANGED <<pc, last>>

\* func (v *Value[T]) CompareAndSwap(old, new T) (swapped bool): the load of
\* the slot and, on nil, the comparison of old with the zero value
CasLoad(t, b, old, new) ==
    /\ ~Crashed /\ pc[t] = "idle"
    /\ LET dp == LoadPointer(b)
           c == [NoCall EXCEPT !.b = b, !.op = "CompareAndSwap", !.old = old,
                               !.new = new, !.dp = dp, !.from = Len(log[b]),
                               !.ops = 1]
       IN  /\ UNCHANGED <<T, v, mem, log>>
           /\ IF dp = 0 /\ ~NilMatches(old)
              THEN Return(t, c, <<>>, FALSE)
              ELSE /\ pc' = [pc EXCEPT ![t] = IF dp = 0 THEN "cas_ptr" ELSE "cas_cmp"]
                   /\ loc' = [loc EXCEPT ![t] = c]
                   /\ UNCHANGED last

\* if *(*[1]T)(dp) != [1]T{old} { return false }
CasCompare(t) ==
    /\ ~Crashed /\ pc[t] = "cas_cmp"
    /\ LET buf == ReadWord(loc[t])
       IN  /\ UNCHANGED <<T, v, mem, log>>
           /\ IF Len(buf) < Width
              THEN /\ loc' = [loc EXCEPT ![t].buf = buf]
                   /\ UNCHANGED <<pc, last>>
              ELSE CASE GoEqual(buf, loc[t].old) = "ne" ->
                            Return(t, loc[t], <<>>, FALSE)
                     [] GoEqual(buf, loc[t].old) = "eq" ->
                            /\ pc' = [pc EXCEPT ![t] = "cas_ptr"]
                            /\ loc' = [loc EXCEPT ![t].buf = buf]
                            /\ UNCHANGED last
                     [] OTHER ->
                            /\ pc' = [pc EXCEPT ![t] = "panic"]
                            /\ loc' = [loc EXCEPT ![t].buf = buf]
                            /\ UNCHANGED last

\* return atomic.CompareAndSwapPointer(&v.v, dp, unsafe.Pointer(&[1]T{new}))
CasSwap(t) ==
    /\ ~Crashed /\ pc[t] = "cas_ptr"
    /\ LET c == loc[t]
           s == NewSnapshot(mem, c.new)
           r == CompareAndSwapPointer(v[c.b], c.dp, s.p)
       IN  /\ mem' = s.mem
           /\ v' = [v EXCEPT ![c.b] = r.v]
           /\ log' = [log EXCEPT ![c.b] = IF r.ok THEN Append(@, s.p) ELSE @]
           /\ UNCHANGED T
           /\ Return(t, [c EXCEPT !.at = IF r.ok THEN Len(log[c.b]) + 1 ELSE 0,
                                   !.ops = @ + 1],
                     <<>>, r.ok)

\* a completed call as the tests record it
NoResult == [b |-> 0, op |-> "none", old |-> <<>>, new |-> <<>>, dp |-> 0,
             ret |-> <<>>, ok |-> FALSE, from |-> 0, at |-> 0, to |-> 0,
             ops |-> 0]

\* the test keeps the result of every call goroutine t completes
Observe(t) ==
    hist' = IF pc'[t] = "idle"
            THEN [hist EXCEPT ![t] = Append(@, last'[t])]
            ELSE hist

InitBox(types, procs, boxes) ==
    /\ T \in types
    /\ v = [b \in boxes |-> 0]
    /\ mem = <<>>
    /\ pc = [t \in procs |-> "idle"]
    /\ loc = [t \in procs |-> NoCall]
    /\ last = [t \in procs |-> NoResult]
    /\ hist = [t \in procs |-> <<>>]
    /\ log = [b \in boxes |-> <<>>]

(***************************************************************************)
(* Spec: NProcs goroutines, each making MaxCalls calls of its choice on    *)
(* one box, with arguments of its choice.                                  *)
(***************************************************************************)
Init ==
    /\ InitBox({"int", "arr"}, 1..NProcs, {1})
    /\ todo = [t \in 1..NProcs |-> MaxCalls]

CallLoad(t) ==
    /\ todo[t] > 0
    /\ Load(t, 1)
    /\ Observe(t)
    /\ todo' = [todo EXCEPT ![t] = @ - 1]

CallStore(t) ==
    /\ todo[t] > 0
    /\ \E val \in Vals : Store(t, 1, val)
    /\ Observe(t)
    /\ todo' = [todo EXCEPT ![t] = @ - 1]

CallSwap(t) ==
    /\ todo[t] > 0
    /\ \E new \in Vals : Swap(t, 1, new)
    /\ Observe(t)
    /\ todo' = [todo EXCEPT ![t] = @ - 1]

CallCompareAndSwap(t) ==
    /\ todo[t] > 0
    /\ \E old \in Vals, new \in Vals : CasLoad(t, 1, old, new)
    /\ Observe(t)
    /\ todo' = [todo EXCEPT ![t] = @ - 1]

StepLoad(t) == LoadCopy(t) /\ Observe(t) /\ UNCHANGED todo

StepSwap(t) == SwapCopy(t) /\ Observe(t) /\ UNCHANGED todo

StepCompare(t) == CasCompare(t) /\ Observe(t) /\ UNCHANGED todo

StepCasSwap(t) == CasSwap(t) /\ Observe(t) /\ UNCHANGED todo

Next ==
    \/ \E t \in Procs : CallLoad(t)
    \/ \E t \in Procs : CallStore(t)
    \/ \E t \in Procs : CallSwap(t)
    \/ \E t \in Procs : CallCompareAndSwap(t)
    \/ \E t \in Procs : StepLoad(t)
    \/ \E t \in Procs : StepSwap(t)
    \/ \E t \in Procs : StepCompare(t)
    \/ \E t \in Procs : StepCasSwap(t)

Spec == Init /\ [][Next]_vars

(***************************************************************************)
(* SpecSeq: one goroutine making MaxSeq calls of its choice, for every T,  *)
(* interface values of mixed dynamic types included.                       *)
(***************************************************************************)
MaxSeq == 3

InitSeq ==
    /\ InitBox(Types, {1}, {1})
    /\ todo = [t \in {1} |-> MaxSeq]

SpecSeq == InitSeq /\ [][Next]_vars

(***************************************************************************)
(* SpecWait: goroutine 1 makes one call of its choice while goroutine 2    *)
(* makes MaxCalls calls of its choice, for every T.  Only goroutine 1 is   *)
(* promised the processor: whenever it can take a step it eventually       *)
(* takes one; goroutine 2 may run at any speed or stop for good.           *)
(***************************************************************************)
InitWait ==
    /\ InitBox(Types, {1, 2}, {1})
    /\ todo = [t \in {1, 2} |-> IF t = 1 THEN 1 ELSE MaxCalls]

\* the steps of goroutine t
ThreadStep(t) ==
    \/ CallLoad(t) \/ CallStore(t) \/ CallSwap(t) \/ CallCompareAndSwap(t)
    \/ StepLoad(t) \/ StepSwap(t) \/ StepCompare(t) \/ StepCasSwap(t)

SpecWait == InitWait /\ [][Next]_vars /\ WF_vars(ThreadStep(1))

(***************************************************************************)
(* SpecPair: two boxes, for every T.  Box 1 is left as constructed, box 2  *)
(* gets the zero value stored; then one goroutine makes MaxPairs calls of  *)
(* its choice, each of them on both boxes, in either order.                *)
(***************************************************************************)
MaxPairs == 2

\* the calls a goroutine can make, with their arguments
Calls ==
    {[op |-> "Load", old |-> <<>>, new |-> <<>>]}
    \cup {[op |-> o, old |-> <<>>, new |-> x] : o \in {"Store", "Swap"}, x \in Vals}
    \cup {[op |-> "CompareAndSwap", old |-> x, new |-> y] : x \in Vals, y \in Vals}

\* goroutine t begins call c on box b
Do(t, b, c) ==
    CASE c.op = "Load"  -> Load(t, b)
      [] c.op = "Store" -> Store(t, b, c.new)
      [] c.op = "Swap"  -> Swap(t, b, c.new)
      [] OTHER          -> CasLoad(t, b, c.old, c.new)

InitPair ==
    /\ InitBox(Types, {1}, {1, 2})
    /\ todo = [t \in {1} |-> [phase |-> "setup", n |-> MaxPairs, b |-> 2,
                              call |-> [op |-> "Store", old |-> <<>>,
                                        new |-> <<>>]]]

\* box 2 gets the zero value stored
PairSetup ==
    /\ todo[1].phase = "setup"
    /\ Store(1, 2, Zero)
    /\ UNCHANGED hist
    /\ todo' = [todo EXCEPT ![1].phase = "first"]

\* the next call, on one of the boxes
PairFirst ==
    /\ todo[1].phase = "first" /\ todo[1].n > 0
    /\ \E b \in Boxes, c \in Calls :
         /\ Do(1, b, c)
         /\ todo' = [todo EXCEPT ![1] = [phase |-> "second", n |-> @.n,
                                         b |-> 3 - b, call |-> c]]
    /\ Observe(1)

\* the same call on the other box
PairSecond ==
    /\ todo[1].phase = "second"
    /\ Do(1, todo[1].b, todo[1].call)
    /\ todo' = [todo EXCEPT ![1].phase = "first", ![1].n = @ - 1]
    /\ Observe(1)

NextPair ==
    \/ PairSetup
    \/ PairFirst
    \/ PairSecond
    \/ StepLoad(1)
    \/ StepSwap(1)
    \/ StepCompare(1)
    \/ StepCasSwap(1)

SpecPair == InitPair /\ [][NextPair]_vars

(***************************************************************************)
(* SpecTorn: TestValue_LoadAndStore/concurrent.  NTorn goroutines share a  *)
(* Value[[2]int]; each runs TornIters times: Store of an element of the    *)
(* data set, then Load.                                                    *)
(***************************************************************************)
NTorn == 2
TornIters == 1

\* data := [][3]uint64{randArr(), ...}
Data == ValuesOf("arr")

InitTorn ==
    /\ InitBox({"arr"}, 1..NTorn, {1})
    /\ todo = [t \in 1..NTorn |-> 2 * TornIters]

\* av.Store(x)
TornStore(t) ==
    /\ todo[t] > 0 /\ todo[t] % 2 = 0
    /\ \E x \in Data : Store(t, 1, x)
    /\ Observe(t)
    /\ todo' = [todo EXCEPT ![t] = @ - 1]

\* x = av.Load()
TornLoad(t) ==
    /\ todo[t] % 2 = 1
    /\ Load(t, 1)
    /\ Observe(t)
    /\ todo' = [todo EXCEPT ![t] = @ - 1]

NextTorn ==
    \/ \E t \in Procs : TornStore(t)
    \/ \E t \in Procs : TornLoad(t)
    \/ \E t \in Procs : StepLoad(t)

SpecTorn == InitTorn /\ [][NextTorn]_vars

(***************************************************************************)
(* SpecSwap: TestValue_Swap/concurrent.  Goroutine t of 1..chunks swaps in *)
(* the integers of its chunk, one after the other, and keeps what each     *)
(* Swap returns; when all are done, goroutine 0 (the test) makes one Load. *)
(***************************************************************************)
chunks == 2
chunkSize == 2

InitSwap ==
    /\ InitBox({"int"}, 0..chunks, {1})
    /\ todo = [t \in 0..chunks |-> IF t = 0 THEN 1 ELSE chunkSize]

\* localSum += av.Swap(start + x)
SwapNext(t) ==
    /\ t # 0 /\ todo[t] > 0
    /\ Swap(t, 1, <<(t - 1) * chunkSize + (chunkSize - todo[t])>>)
    /\ Observe(t)
    /\ todo' = [todo EXCEPT ![t] = @ - 1]

\* wg.Wait(); sum.Add(av.Load())
SwapFinalLoad ==
    /\ todo[0] = 1
    /\ \A t \in Procs \ {0} : todo[t] = 0 /\ pc[t] = "idle"
    /\ Load(0, 1)
    /\ Observe(0)
    /\ todo' = [todo EXCEPT ![0] = 0]

NextSwap ==
    \/ \E t \in Procs : SwapNext(t)
    \/ \E t \in Procs : StepSwap(t)
    \/ SwapFinalLoad
    \/ StepLoad(0)

SpecSwap == InitSwap /\ [][NextSwap]_vars

(***************************************************************************)
(* SpecCounter: TestValue_CompareAndSwap/concurrent.  Goroutine i of       *)
(* 0..n-1 repeats CompareAndSwap(i, i+1) until it returns true; when all   *)
(* are done, goroutine n (the test) makes one Load.  Only the calls that   *)
(* returned true are recorded.                                             *)
(***************************************************************************)
n == 4

InitCounter ==
    /\ InitBox({"int"}, 0..n, {1})
    /\ todo = [t \in 0..n |-> [done |-> FALSE, yielded |-> FALSE]]

\* the test keeps the calls of goroutine t that returned true; after a
\* false result the goroutine yields and tries again
ObserveTrue(t) ==
    /\ hist' = IF pc'[t] = "idle" /\ last'[t].ok
               THEN [hist EXCEPT ![t] = Append(@, last'[t])]
               ELSE hist
    /\ todo' = IF pc'[t] # "idle" THEN todo
               ELSE IF last'[t].ok THEN [todo EXCEPT ![t].done = TRUE]
               ELSE [todo EXCEPT ![t].yielded = TRUE]

\* for !av.CompareAndSwap(i, i+1) { runtime.Gosched() }
CounterTry(t) ==
    /\ t # n /\ ~todo[t].done
    /\ CasLoad(t, 1, <<t>>, <<t + 1>>)
    /\ ObserveTrue(t)

CounterCompare(t) == CasCompare(t) /\ ObserveTrue(t)

CounterCasSwap(t) == CasSwap(t) /\ ObserveTrue(t)

\* wg.Wait(), then a Load of the final value
CounterFinalLoad ==
    /\ ~todo[n].done
    /\ \A t \in Procs \ {n} : todo[t].done
    /\ Load(n, 1)
    /\ Observe(n)
    /\ todo' = [todo EXCEPT ![n].done = TRUE]

NextCounter ==
    \/ \E t \in Procs : CounterTry(t)
    \/ \E t \in Procs : CounterCompare(t)
    \/ \E t \in Procs : CounterCasSwap(t)
    \/ CounterFinalLoad
    \/ StepLoad(n)

SpecCounter == InitCounter /\ [][NextCounter]_vars

\* the steps of goroutine t: those of its CompareAndSwap loop, or, for the
\* test goroutine, of the Load after wg.Wait()
CounterThread(t) ==
    \/ CounterTry(t)
    \/ CounterCompare(t)
    \/ CounterCasSwap(t)
    \/ (t = n /\ CounterFinalLoad)
    \/ (t = n /\ StepLoad(n))

\* The Go scheduler runs every runnable goroutine again and again
\* (runtime.Gosched() only yields the processor), so a goroutine that can
\* take a step is not left waiting for ever: weak fairness of every one.
SpecCounterFair ==
    /\ InitCounter
    /\ [][NextCounter]_vars
    /\ \A t \in 0..n : WF_vars(CounterThread(t))

(***************************************************************************)
(* Claims.                                                                 *)
(***************************************************************************)
\* the calls goroutine t has completed so far, as recorded
Done(t) == {hist[t][i] : i \in 1..Len(hist[t])}

AllDone == UNION {Done(t) : t \in Procs}

\* C3: under any interleaving, a CompareAndSwap(old, new) that returned true
\* saw the box hold a value equal to old at some instant of the call (the
\* box's values during the call are those after replacements from..at-1),
\* and at its return the box holds new.
C3_CasTrueOnlyOnMatch ==
    \A t \in Procs :
        (last[t].op = "CompareAndSwap" /\ last[t].ok) =>
            /\ \E k \in last[t].from .. (last[t].at - 1) :
                   ValueAt(last[t].b, k) = last[t].old
            /\ last[t].at = last[t].to
            /\ ValueAt(last[t].b, last[t].to) = last[t].new

\* a CompareAndSwap with a nonzero old returned true on a box that held a
\* snapshot, while another goroutine was inside a call
C3_Witness ==
    \E t \in Procs, u \in Procs :
        /\ t # u
        /\ last[t].op = "CompareAndSwap" /\ last[t].ok
        /\ last[t].old # Zero /\ last[t].dp # 0
        /\ pc[u] # "idle"

\* C10: a Load that starts after a Store has returned gets the snapshot that
\* Store installed or one installed later, and never an earlier one (nor
\* the initial zero value).
C10_LoadNotBeforeStore ==
    \A s \in AllDone, l \in AllDone :
        (s.op = "Store" /\ l.op = "Load" /\ s.at <= l.from) =>
            \E k \in s.at .. l.to :
                /\ log[l.b][k] = l.dp
                /\ l.ret = ValueAt(l.b, k)

\* a Load that started after a Store of another goroutine had returned, and
\* after a later write, returned the later value
C10_Witness ==
    \E t \in Procs, u \in Procs :
        /\ t # u
        /\ \E s \in Done(t), l \in Done(u) :
               /\ s.op = "Store" /\ l.op = "Load"
               /\ s.at < l.from
               /\ l.ret # s.new

\* C4: on a freshly constructed Value of any T, the first call, if a Load,
\* returns the zero value; if a CompareAndSwap(old, x), it returns true
\* exactly when old is the zero value, and then the box holds x.  The first
\* call always returns.
C4_FreshBoxIsZero ==
    /\ Len(hist[1]) = 0 => pc[1] # "panic"
    /\ Len(hist[1]) >= 1 =>
         LET h == hist[1][1]
         IN  /\ h.op = "Load" => h.ret = Zero
             /\ h.op = "CompareAndSwap" =>
                  /\ h.ok = (h.old = Zero)
                  /\ h.ok => (h.at = 1 /\ ValueAt(1, 1) = h.new)
                  /\ (h.ok /\ Len(hist[1]) = 1 /\ pc[1] = "idle") =>
                         Held(1) = h.new
                  /\ (~h.ok /\ Len(hist[1]) = 1 /\ pc[1] = "idle") =>
                         v[1] = 0

\* on a fresh Value of an interface type, CompareAndSwap(nil, x) with x of a
\* dynamic type without equality returned true and the box holds x
C4_Witness ==
    /\ T = "iface" /\ Len(hist[1]) = 1 /\ pc[1] = "idle"
    /\ hist[1][1].op = "CompareAndSwap" /\ hist[1][1].ok
    /\ hist[1][1].old = Zero /\ hist[1][1].new = <<"slice", 0>>
    /\ Held(1) = <<"slice", 0>>

\* C6: in a single-threaded run, a Load that follows a Store(val) with no
\* write in between (only Loads and CompareAndSwaps that returned false)
\* returns val, for every val of T.
C6_ReadAfterWrite ==
    \A i \in 1..Len(hist[1]), j \in 1..Len(hist[1]) :
        (/\ i < j
         /\ hist[1][i].op = "Store" /\ hist[1][j].op = "Load"
         /\ \A k \in (i + 1)..(j - 1) : hist[1][k].at = 0) =>
            hist[1][j].ret = hist[1][i].new

\* Store(nil) into a Value of an interface type, a CompareAndSwap that
\* returned false, then a Load that returned nil out of the stored snapshot
C6_Witness ==
    /\ T = "iface" /\ Len(hist[1]) = 3
    /\ hist[1][1].op = "Store" /\ hist[1][1].new = Zero
    /\ hist[1][2].op = "CompareAndSwap" /\ ~hist[1][2].ok
    /\ hist[1][3].op = "Load" /\ hist[1][3].ret = Zero
    /\ hist[1][3].dp # 0

\* the value the box held when the recorded call h began
HeldBefore(h) == ValueAt(h.b, h.from)

\* C7: in a single-threaded run every CompareAndSwap(old, new) returns, and
\* returns true exactly when the value held equals old, whichever snapshot
\* holds it; after true the box holds new (a following Load returns new),
\* after false the slot is unchanged (a following Load returns the old value).
C7_CasComparesContents ==
    /\ pc[1] # "panic"
    /\ \A i \in 1..Len(hist[1]) :
         LET h == hist[1][i]
         IN  h.op = "CompareAndSwap" =>
               /\ h.ok = (HeldBefore(h) = h.old)
               /\ h.ok => (h.at = h.from + 1 /\ h.to = h.at)
               /\ ~h.ok => h.to = h.from
               /\ (i < Len(hist[1]) /\ hist[1][i + 1].op = "Load") =>
                      hist[1][i + 1].ret =
                          IF h.ok THEN h.new ELSE HeldBefore(h)

\* C8: for a Value of an interface type, a Load right after a Store returns
\* the stored pair (dynamic type, payload); every CompareAndSwap(old, new)
\* returns, false when the dynamic type of the stored value differs from
\* old's, true when both dynamic type and payload are equal.
C8_MixedInterfaceTypes ==
    T = "iface" =>
      /\ pc[1] # "panic"
      /\ \A i \in 1..Len(hist[1]) :
           LET h == hist[1][i]
           IN  /\ (h.op = "Store" /\ i < Len(hist[1])
                     /\ hist[1][i + 1].op = "Load") =>
                      hist[1][i + 1].ret = h.new
               /\ h.op = "CompareAndSwap" =>
                    /\ HeldBefore(h)[1] # h.old[1] => ~h.ok
                    /\ HeldBefore(h) = h.old => h.ok

\* C5: a box left as constructed and a box with the zero value stored give
\* the same result for every call of every sequence of calls made on both:
\* the results of each pair of calls agree, and no call panics on one box
\* after its twin has returned on the other.
C5_EmptyEqualsZeroStored ==
    /\ \A k \in 1..Len(hist[1]) :
         (k % 2 = 0) =>
            /\ hist[1][k].op = hist[1][k - 1].op
            /\ hist[1][k].b # hist[1][k - 1].b
            /\ hist[1][k].ret = hist[1][k - 1].ret
            /\ hist[1][k].ok = hist[1][k - 1].ok
    /\ pc[1] = "panic" => Len(hist[1]) % 2 = 0

\* a CompareAndSwap(zero, x) returned true on the empty box and on the box
\* with zero stored, and a second pair of calls has returned as well
C5_Witness ==
    /\ Len(hist[1]) = 4
    /\ hist[1][1].op = "CompareAndSwap" /\ hist[1][1].ok
    /\ hist[1][1].b = 1 /\ hist[1][1].dp = 0
    /\ hist[1][2].b = 2 /\ hist[1][2].dp # 0 /\ hist[1][2].ok
    /\ hist[1][3].op = "Load" /\ hist[1][3].ret = hist[1][1].new

\* C9: with goroutines concurrently storing two-word values of the data set
\* and loading, every Load returns the zero value or one element of the data
\* set whole, never a mix of words of two stored values.
C9_NoTornRead ==
    \A l \in AllDone : l.op = "Load" => l.ret \in Data \cup {Zero}

\* a Load returned a nonzero element of the data set although another
\* goroutine's Store replaced the slot while the Load was copying
C9_Witness ==
    \E l \in AllDone :
        /\ l.op = "Load" /\ l.ret \in Data /\ l.ret # Zero
        /\ l.to > l.from
        /\ ValueAt(1, l.to) # l.ret

\* the recorded Swap calls, as <<goroutine, index>>
SwapCalls ==
    {p \in {<<t, i>> : t \in Procs, i \in 1..chunkSize} :
        p[2] <= Len(hist[p[1]]) /\ hist[p[1]][p[2]].op = "Swap"}

\* how often x was returned by a Swap or by the final Load
TimesReturned(x) ==
    Cardinality({p \in SwapCalls : hist[p[1]][p[2]].ret = x})
    + (IF hist[0] # <<>> /\ hist[0][1].ret = x THEN 1 ELSE 0)

\* how often x was passed to a Swap, the initial zero value counted once
TimesInstalled(x) ==
    Cardinality({p \in SwapCalls : hist[p[1]][p[2]].new = x})
    + (IF x = Zero THEN 1 ELSE 0)

\* C1: when all Swaps of all goroutines have returned and the final Load
\* has been taken, the multiset of the values the Swaps returned plus the
\* loaded value equals the multiset of the values passed to Swap plus the
\* initial zero value.
C1_SwapReturnsEachValueOnce ==
    (todo[0] = 0 /\ pc[0] = "idle") =>
        /\ Cardinality(SwapCalls) = chunks * chunkSize
        /\ \A x \in {<<i>> : i \in 0..(chunks * chunkSize)} :
               TimesReturned(x) = TimesInstalled(x)

\* the final Load is done, and some Swap returned a value that a Swap of
\* another goroutine had installed
C1_Witness ==
    /\ todo[0] = 0 /\ pc[0] = "idle"
    /\ \E p \in SwapCalls, q \in SwapCalls :
           /\ p[1] # q[1]
           /\ hist[p[1]][p[2]].ret = hist[q[1]][q[2]].new
           /\ hist[p[1]][p[2]].ret # Zero

\* C2: in the counter race, goroutine i gets at most one true result, and
\* has exactly one once it is done; its success is the (i+1)-th replacement
\* of the slot, so the successes come in the order 0, 1, ..., n-1; and the
\* Load taken when all are done returns n.
C2_CounterRace ==
    /\ \A t \in Procs \ {n} :
          /\ Len(hist[t]) <= 1
          /\ todo[t].done = (Len(hist[t]) = 1)
          /\ Len(hist[t]) = 1 =>
                /\ hist[t][1].ok
                /\ hist[t][1].at = t + 1
                /\ ValueAt(1, t + 1) = <<t + 1>>
    /\ (todo[n].done /\ pc[n] = "idle") =>
          /\ \A t \in Procs \ {n} : Len(hist[t]) = 1
          /\ Len(log[1]) = n
          /\ hist[n][1].ret = <<n>>

\* all goroutines are done and the final Load has returned, after every
\* goroutine but goroutine 0 had a false result and tried again
C2_Witness ==
    /\ todo[n].done /\ pc[n] = "idle"
    /\ \A t \in Procs \ {0, n} : todo[t].yielded

\* C11: in a single-threaded run, every Swap(new) returns the value the box
\* held immediately before the call (the zero value on an empty box) and is
\* the one replacement of the slot made during the call; a Load that follows
\* it directly returns new.  This holds for every new of every T.
C11_SwapReturnsPrior ==
    \A i \in 1..Len(hist[1]) :
        LET h == hist[1][i]
        IN  h.op = "Swap" =>
              /\ h.ret = HeldBefore(h)
              /\ h.at = h.from + 1 /\ h.to = h.at
              /\ ValueAt(h.b, h.at) = h.new
              /\ (i < Len(hist[1]) /\ hist[1][i + 1].op = "Load") =>
                     hist[1][i + 1].ret = h.new

\* on a Value of an interface type holding a stored non-nil value, Swap(nil)
\* returned that value, and the following Load returned nil out of the new
\* snapshot
C11_Witness ==
    /\ T = "iface" /\ Len(hist[1]) = 3
    /\ hist[1][1].op = "Store" /\ hist[1][1].new = <<"fakeWriter", 0>>
    /\ hist[1][2].op = "Swap" /\ hist[1][2].new = Zero
    /\ hist[1][2].ret = <<"fakeWriter", 0>>
    /\ hist[1][3].op = "Load" /\ hist[1][3].ret = Zero /\ hist[1][3].dp # 0

\* C12: in the counter race under weak fairness of every goroutine, every
\* goroutine i of 0..n-1 eventually gets a true result, and the run
\* eventually reaches, and stays in, the state where all of them are done.
C12_AllEventuallyDone ==
    /\ \A t \in 0..(n - 1) :
          <>(Len(hist[t]) = 1 /\ hist[t][1].ok /\ hist[t][1].old = <<t>>)
    /\ <>[](\A t \in 0..(n - 1) : todo[t].done /\ pc[t] = "idle")

\* all goroutines of the race are done, the last of them after a false
\* result and a retry, and the test has not yet looked at the box
C12_Witness ==
    /\ \A t \in Procs \ {n} : todo[t].done /\ pc[t] = "idle"
    /\ todo[n - 1].yielded
    /\ ~todo[n].done /\ pc[n] = "idle"

\* C13: no call of Load, Store, Swap or CompareAndSwap ends in a panic, for
\* every input of every T and in every state of the box; a CompareAndSwap
\* that finds a mismatch returns false.
C13_NoPanic ==
    /\ ~Crashed
    /\ \A t \in Procs : pc[t] \in {"idle", "load_copy", "swap_copy",
                                   "cas_cmp", "cas_ptr"}

\* the place of the snapshot at address dp in the order of box b's slot
\* replacements (0: the nil the box is constructed with)
Pos(b, dp) ==
    IF dp = 0 THEN 0 ELSE CHOOSE k \in 1..Len(log[b]) : log[b][k] = dp

\* the recorded calls, as <<goroutine, index>>
Recorded == {p \in Procs \X (1..MaxCalls) : p[2] <= Len(hist[p[1]])}

\* C14: the slot replacements of a box form one order (log), in which every
\* recorded Store, Swap and true CompareAndSwap has a place of its own
\* holding its new value; every Load and Swap returns the value at one place
\* of that order (a Swap the one just before its own); and within a
\* goroutine the places observed by successive Loads and Swaps never
\* decrease, nor fall behind the goroutine's own earlier replacement.
C14_OneOrder ==
    /\ \A p \in Recorded, q \in Recorded :
          LET c == hist[p[1]][p[2]]
              d == hist[q[1]][q[2]]
          IN  (p # q /\ c.at > 0 /\ d.at > 0) => c.at # d.at
    /\ \A p \in Recorded :
          LET c == hist[p[1]][p[2]]
          IN  /\ c.at > 0 =>
                   (c.at <= Len(log[c.b]) /\ ValueAt(c.b, c.at) = c.new)
              /\ c.op \in {"Load", "Swap"} =>
                   c.ret = ValueAt(c.b, Pos(c.b, c.dp))
              /\ c.op = "Swap" => Pos(c.b, c.dp) = c.at - 1
    /\ \A t \in Procs : \A i \in 1..Len(hist[t]), j \in 1..Len(hist[t]) :
          LET c == hist[t][i]
              d == hist[t][j]
          IN  (i < j /\ d.op \in {"Load", "Swap"}) =>
                 /\ c.op \in {"Load", "Swap"} =>
                        Pos(c.b, c.dp) <= Pos(d.b, d.dp)
                 /\ c.at <= Pos(d.b, d.dp)

\* a goroutine loaded twice and saw two places of the order, the second
\* later than a replacement another goroutine made in between
C14_Witness ==
    \E t \in Procs, u \in Procs :
        /\ t # u /\ Len(hist[t]) = 2 /\ Len(hist[u]) = 2
        /\ hist[t][1].op = "Load" /\ hist[t][2].op = "Load"
        /\ hist[u][1].at = 1 /\ hist[u][2].at = 2
        /\ Pos(1, hist[t][1].dp) = 1 /\ Pos(1, hist[t][2].dp) = 2
        /\ hist[t][1].ret # hist[t][2].ret

\* the number of slot replacements other calls made between the read of the
\* slot by the recorded CompareAndSwap h and its conditional replacement
Intervening(h) == (IF h.ok THEN h.at - 1 ELSE h.to) - h.from

\* C15: a CompareAndSwap whose read of the slot and conditional replacement
\* have a replacement by another call between them returns false, whatever
\* value the box holds by then, and installs nothing: every replacement of
\* the slot belongs to a recorded Store, Swap or true CompareAndSwap, or to
\* a Swap still copying its result.  A CompareAndSwap that returned true took
\* the place right after the one it read.
C15_CasDoesNotRetry ==
    /\ \A p \in Recorded :
          LET h == hist[p[1]][p[2]]
          IN  h.op = "CompareAndSwap" =>
                /\ Intervening(h) > 0 => (~h.ok /\ h.at = 0)
                /\ h.ok => h.at = h.from + 1
    /\ \A b \in Boxes :
          Len(log[b]) =
              Cardinality({p \in Recorded : /\ hist[p[1]][p[2]].b = b
                                         /\ hist[p[1]][p[2]].at > 0})
              + Cardinality({t \in Procs : pc[t] = "swap_copy" /\ loc[t].b = b})

\* a CompareAndSwap(zero, x) read the empty box; another goroutine stored a
\* different value and then the zero value again; the CompareAndSwap then
\* returned false although the box held a value equal to old
C15_Witness ==
    \E t \in Procs :
        /\ Len(hist[t]) >= 1
        /\ LET h == hist[t][1]
           IN  /\ h.op = "CompareAndSwap" /\ ~h.ok
               /\ h.old = Zero /\ h.dp = 0 /\ h.from = 0 /\ h.to = 2
               /\ ValueAt(1, 1) # Zero /\ ValueAt(1, 2) = Zero
               /\ h.new # Zero

(***************************************************************************)
(* The lock-based baseline mutexValue: every call is one atomic step on    *)
(* the field inner, which starts as the zero value.                        *)
(***************************************************************************)
\* the call recorded as h made on a mutexValue holding inner: the new
\* contents of inner and what the call returns
MutexCall(inner, h) ==
    CASE h.op = "Load"  -> [inner |-> inner, ret |-> inner, ok |-> TRUE]
      [] h.op = "Store" -> [inner |-> h.new, ret |-> <<>>, ok |-> TRUE]
      [] h.op = "Swap"  -> [inner |-> h.new, ret |-> inner, ok |-> TRUE]
      [] OTHER          ->
            IF GoEqual(inner, h.old) = "eq"
            THEN [inner |-> h.new, ret |-> <<>>, ok |-> TRUE]
            ELSE [inner |-> inner, ret |-> <<>>, ok |-> FALSE]

\* the interleavings of the recorded calls: the k-th step is the next call
\* of goroutine s[k]
Schedules ==
    {s \in [1..Cardinality(Recorded) -> Procs] :
        \A t \in Procs : Cardinality({k \in DOMAIN s : s[k] = t}) = Len(hist[t])}

\* the call made at step k of interleaving s
CallAt(s, k) == hist[s[k]][Cardinality({i \in 1..k : s[i] = s[k]})]

\* a recorded CompareAndSwap that returned false because the slot had been
\* replaced between its read and its conditional replacement
FailedOnReplacement(h) ==
    h.op = "CompareAndSwap" /\ ~h.ok /\ Intervening(h) > 0

RECURSIVE MutexRun(_, _, _, _)
\* from step k on, a mutexValue holding inner gives every call of
\* interleaving s the result recorded for it and ends holding what the box
\* holds; with lenient, a CompareAndSwap that failed on a replacement is
\* passed over
MutexRun(s, k, inner, lenient) ==
    IF k > Cardinality(Recorded) THEN inner = Held(1)
    ELSE LET h == CallAt(s, k)
             r == MutexCall(inner, h)
         IN  IF lenient /\ FailedOnReplacement(h)
             THEN MutexRun(s, k + 1, inner, lenient)
             ELSE /\ r.ret = h.ret /\ r.ok = h.ok
                  /\ MutexRun(s, k + 1, r.inner, lenient)

\* no call is in progress
Quiescent == \A t \in Procs : pc[t] = "idle"

C17_AtMostOneAtomicOp ==
    \A t \in Procs : loc[t].ops <= 1 /\ last[t].ops <= 1

\* C17 amended: no call makes more than two atomic operations on the slot.
\* Load, Store and Swap make exactly one; CompareAndSwap makes one (the
\* load) when it returns false on the comparison, and two (the load and the
\* conditional replacement) otherwise, so always two when it returns true.
C17_AtMostTwoAtomicOps ==
    /\ \A t \in Procs : loc[t].ops <= 2 /\ (pc[t] # "idle" => loc[t].ops = 1)
    /\ \A p \in Recorded :
          LET h == hist[p[1]][p[2]]
          IN  /\ h.op \in {"Load", "Store", "Swap"} => h.ops = 1
              /\ h.op = "CompareAndSwap" =>
                   /\ h.ops \in {1, 2}
                   /\ h.ok => h.ops = 2
                   /\ h.ops = 1 <=> (~h.ok /\ HeldBefore(h) # h.old)

\* one CompareAndSwap returned true and another returned false, each after
\* two atomic operations on the slot: its load and its conditional replacement
C17_Witness ==
    \E p \in Recorded, q \in Recorded :
        /\ hist[p[1]][p[2]].op = "CompareAndSwap" /\ hist[p[1]][p[2]].ok
        /\ hist[p[1]][p[2]].ops = 2
        /\ hist[q[1]][q[2]].op = "CompareAndSwap" /\ ~hist[q[1]][q[2]].ok
        /\ hist[q[1]][q[2]].ops = 2

\* C18: no step changes or frees the contents of a snapshot allocated
\* before it, and every step that installs a snapshot into a slot installs
\* one allocated in that very step, at an address no earlier snapshot has,
\* holding the new value of the installing call.
C18_ImmutableAndFresh ==
    [][/\ Len(mem') >= Len(mem)
       /\ \A p \in 1..Len(mem) : mem'[p] = mem[p]
       /\ \A b \in Boxes :
             log'[b] # log[b] =>
                /\ Len(log'[b]) = Len(log[b]) + 1
                /\ v'[b] = log'[b][Len(log'[b])]
                /\ v'[b] \notin 0..Len(mem)
                /\ v'[b] \in 1..Len(mem')
                /\ \E t \in Procs :
                      /\ pc[t] \in {"idle", "cas_ptr"}
                      /\ mem'[v'[b]] = IF pc[t] = "cas_ptr" THEN loc[t].new
                                       ELSE IF pc'[t] = "idle" THEN last'[t].new
                                       ELSE loc'[t].new]_vars

\* the same value was installed twice, by a Store and by a CompareAndSwap
\* that returned true: two snapshots at different addresses, and the one
\* replaced still holds what it held when it was published
C18_Witness ==
    \E p \in Recorded, q \in Recorded :
        LET c == hist[p[1]][p[2]]
            d == hist[q[1]][q[2]]
        IN  /\ c.op = "Store" /\ d.op = "CompareAndSwap" /\ d.ok
            /\ c.at = 1 /\ d.at = 2 /\ c.new = d.new
            /\ log[1][1] # log[1][2]
            /\ mem[log[1][1]] = c.new /\ mem[log[1][2]] = d.new
            /\ Len(log[1]) > 2

\* goroutine t takes a step of a Load, or a step of a CompareAndSwap that
\* does not end with the result true
ReadOnlyStep(t) ==
    \/ pc[t] \in {"load_copy", "cas_cmp"}
          /\ (pc'[t] # pc[t] \/ loc'[t] # loc[t])
    \/ pc[t] = "idle" /\ pc'[t] \in {"load_copy", "cas_cmp", "cas_ptr"}
    \/ pc[t] \in {"idle", "cas_ptr"} /\ hist'[t] # hist[t]
          /\ \/ last'[t].op = "Load"
             \/ last'[t].op = "CompareAndSwap" /\ ~last'[t].ok

\* C19: a step that changes a slot is the atomic replacement of a Store, a
\* Swap or a CompareAndSwap that returns true; every step of a Load and of
\* a CompareAndSwap that returns false leaves the slots, the order of
\* replacements and the contents of every snapshot as they were.
C19_SlotChangesOnlyOnWrite ==
    [][/\ v' # v =>
            \E t \in Procs :
               /\ pc[t] \in {"idle", "cas_ptr"}
               /\ IF pc'[t] = "idle"
                  THEN /\ hist'[t] # hist[t]
                       /\ last'[t].op \in {"Store", "Swap", "CompareAndSwap"}
                       /\ last'[t].ok
                       /\ last'[t].at = Len(log'[last'[t].b])
                  ELSE pc'[t] = "swap_copy" /\ pc[t] = "idle"
       /\ (\E t \in Procs : ReadOnlyStep(t)) =>
             /\ v' = v /\ log' = log
             /\ \A p \in 1..Len(mem) : mem'[p] = mem[p]]_vars

\* a CompareAndSwap returned false at its conditional replacement, and one
\* returned false on the comparison, and a Load returned; the slot holds
\* what the one Store installed
C19_Witness ==
    /\ Len(log[1]) = 1 /\ v[1] = log[1][1]
    /\ \E p \in Recorded, q \in Recorded, r \in Recorded :
          /\ hist[p[1]][p[2]].op = "CompareAndSwap" /\ ~hist[p[1]][p[2]].ok
          /\ hist[p[1]][p[2]].ops = 2
          /\ hist[q[1]][q[2]].op = "CompareAndSwap" /\ ~hist[q[1]][q[2]].ok
          /\ hist[q[1]][q[2]].ops = 1
          /\ hist[r[1]][r[2]].op = "Load" /\ hist[r[1]][r[2]].dp # 0

\* the steps goroutine t still has to take before its current call returns,
\* at most: the words left to copy, and for CompareAndSwap the conditional
\* replacement
StepsLeft(t) ==
    CASE pc[t] \in {"load_copy", "swap_copy"} -> Width - Len(loc[t].buf)
      [] pc[t] = "cas_cmp" -> Width - Len(loc[t].buf) + 1
      [] pc[t] = "cas_ptr" -> 1
      [] OTHER -> 0

\* C20: under weak fairness of goroutine 1 alone, whatever goroutine 2
\* does, every call of goroutine 1 stays within Width + 1 steps after its
\* first and returns, and the box is then empty or holds one snapshot.
C20_WaitFree ==
    /\ [](StepsLeft(1) <= Width + 1)
    /\ [](pc[1] # "idle" =>
             <>(pc[1] = "idle" /\ (v[1] = 0 \/ v[1] \in 1..Len(mem))))
    /\ <>(todo[1] = 0 /\ pc[1] = "idle")

\* the recorded call h of goroutine t had a Store, a Swap or a true
\* CompareAndSwap of another goroutine replace the slot between its read of
\* the slot and its return
ForeignWriteDuring(t, h) ==
    \E k \in (h.from + 1)..h.to :
        \/ \E q \in Recorded :
              /\ q[1] # t
              /\ hist[q[1]][q[2]].b = h.b /\ hist[q[1]][q[2]].at = k
              /\ hist[q[1]][q[2]].op \in {"Store", "Swap", "CompareAndSwap"}
              /\ hist[q[1]][q[2]].ok
        \/ \E u \in Procs \ {t} :
              pc[u] = "swap_copy" /\ loc[u].b = h.b /\ loc[u].at = k

\* C21: a CompareAndSwap(old, new) that returned false although the value
\* it read was equal to old had a Store, Swap or true CompareAndSwap of
\* another goroutine replace the slot between its read and its conditional
\* replacement; and a CompareAndSwap that read a value equal to old and ran
\* without such a replacement does not end otherwise than by returning true:
\* it is not stopped at the comparison.
C21_LockFreeCas ==
    /\ \A p \in Recorded :
          LET h == hist[p[1]][p[2]]
          IN  (h.op = "CompareAndSwap" /\ HeldBefore(h) = h.old) =>
                 /\ ~h.ok => (h.ops = 2 /\ ForeignWriteDuring(p[1], h))
                 /\ h.to = h.from + (IF h.ok THEN 1 ELSE 0) => h.ok
    /\ \A t \in Procs :
          ~(/\ pc[t] = "panic"
            /\ loc[t].op = "CompareAndSwap" /\ loc[t].buf = loc[t].old)

\* the k-th replacement of box b's slot was made by a Store, a Swap or a
\* CompareAndSwap that returned true, with x as the value to install
InstalledBy(b, k, x) ==
    \/ \E q \in Recorded :
          LET w == hist[q[1]][q[2]]
          IN  /\ w.b = b /\ w.at = k /\ w.new = x
              /\ w.op \in {"Store", "Swap", "CompareAndSwap"} /\ w.ok
    \/ \E u \in Procs :
          /\ pc[u] = "swap_copy"
          /\ loc[u].b = b /\ loc[u].at = k /\ loc[u].new = x

\* C22: every Load and Swap returns the zero value of the never-stored box,
\* or the contents of a snapshot that a Store, a Swap or a CompareAndSwap
\* returning true installed with that value before the Load or Swap
\* returned (a Swap: before its own replacement); the snapshot a
\* CompareAndSwap allocates and fails to install is never returned.
C22_FailedCasNeverVisible ==
    \A p \in Recorded :
        LET h == hist[p[1]][p[2]]
        IN  h.op \in {"Load", "Swap"} =>
              IF h.dp = 0 THEN h.ret = Zero /\ h.from = 0
              ELSE \E k \in 1..(IF h.op = "Swap" THEN h.at - 1 ELSE h.to) :
                      /\ k <= Len(log[h.b])
                      /\ log[h.b][k] = h.dp
                      /\ InstalledBy(h.b, k, h.ret)

\* a CompareAndSwap allocated its snapshot and failed to install it; the
\* same goroutine then loaded the value another goroutine's Store had
\* installed, which differs from the new value of the failed call
C22_Witness ==
    \E t \in Procs :
        /\ Len(hist[t]) = 2
        /\ hist[t][1].op = "CompareAndSwap" /\ ~hist[t][1].ok
        /\ hist[t][1].ops = 2
        /\ hist[t][2].op = "Load" /\ hist[t][2].dp # 0
        /\ hist[t][2].ret # hist[t][1].new
        /\ Len(mem) > Len(log[1])

\* C23: no step makes a slot nil that was not nil, and every step in which
\* a Store, a Swap or a true CompareAndSwap takes effect leaves the slot
\* holding the address of the snapshot it allocated for the value written,
\* the zero value and nil included.
C23_EmptyOnlyInitially ==
    [][\A b \in Boxes :
          /\ v[b] # 0 => v'[b] # 0
          /\ log'[b] # log[b] =>
                /\ v'[b] # 0 /\ v'[b] > Len(mem)
                /\ v'[b] = log'[b][Len(log'[b])]
          /\ (log[b] # <<>> /\ log'[b] # <<>>) => (v[b] # 0 /\ v'[b] # 0)]_vars

\* on a Value of an interface type, nil was stored and later installed
\* again by a CompareAndSwap(nil, nil): the slot is not nil and names the
\* second snapshot holding nil
C23_Witness ==
    /\ T = "iface" /\ Len(log[1]) = 2
    /\ ValueAt(1, 1) = Zero /\ ValueAt(1, 2) = Zero
    /\ v[1] = log[1][2] /\ v[1] # 0 /\ mem[v[1]] = Zero
    /\ \E p \in Recorded :
          /\ hist[p[1]][p[2]].op = "CompareAndSwap" /\ hist[p[1]][p[2]].ok
          /\ hist[p[1]][p[2]].at = 2 /\ hist[p[1]][p[2]].dp # 0

====
